---- MODULE Spec2Model ----
(***************************************************************************)
(* The ztrace receiver: its scheduler (Start, Shutdown, collect,           *)
(* runTrace), its trace engine (trace, traceHop) and its two projections   *)
(* (convertToMetrics, convertToTraces).                                    *)
(*                                                                         *)
(* Time is abstract: a ticker fires whenever it likes, a context deadline  *)
(* expires whenever it likes while its invocation is probing.  The values  *)
(* drawn from math/rand are chosen from the sample set RandDraws.  A       *)
(* float64 is a fixed-point number with one decimal digit, a timestamp a   *)
(* number of nanoseconds.                                                  *)
(***************************************************************************)
EXTENDS Integers, Sequences, FiniteSets, TLC

-----------------------------------------------------------------------------
(* Bounds of the model.                                                    *)

\* the number of callers of Shutdown
NumCallers == 2
\* the number of invocations a job may begin (caps the counter)
MaxInvocations == 2
\* the largest max_hops of a configuration of the trace specification
TraceMaxHops == 15

VARIABLES
    config,         \* r.config: Targets, MaxHops, EnableGeolocation, EnableASNLookup
    consumer,       \* r.consumer != nil
    traceConsumer,  \* r.traceConsumer != nil
    stopCh,         \* r.stopCh: "nil", "open" or "closed"
    stopOnce,       \* r.stopOnce has run its function
    wg,             \* r.wg: the WaitGroup counter
    tracer,         \* r.tracer: "nil" or "set"
    panicked,       \* the process has panicked (close of a nil or closed channel)
    startPc,        \* Start: "init", "launching", "returned"
    sdPc,           \* each Shutdown caller: "idle", "wait", "returned", "panicked"
    pc,             \* each job's position in collect / runTrace
    ticker,         \* each job's ticker.C: "none", "empty", "tick", "stopped"
    ctxDone,        \* each job's current invocation: ctx.Done() is closed
    addr,           \* trace: the resolved address of the current invocation
    ttl,            \* trace: the loop variable
    result,         \* trace: the traceResult being built, then returned
    lastErr,        \* the error trace returned in the last invocation
    sentMetrics,    \* the last invocation's ConsumeMetrics: "none", "ok", "rejected"
    sentTraces,     \* the last invocation's ConsumeTraces: "none", "ok", "rejected"
    probes,         \* the number of traceHop calls of the last invocation
    invocations,    \* the number of runTrace calls each job has begun
    ticksTaken,     \* the number of ticks each job has received from ticker.C
    inflight,       \* the number of runTrace calls of each job that have not returned
    md,             \* convertToMetrics: the metrics batch built from each job's result
    td,             \* convertToTraces: the trace batch built from each job's result
    validateErr,    \* ztrace Config.Validate: "pending", or the error it returned ("nil")
    iperfCfg,       \* the iperf receiver's Config: Mode, ServerPort, Targets
    iperfErr,       \* iperf Config.Validate: whether it returned, and its errors
    mu,             \* iperf scraper: s.mu is locked
    scrapePc,       \* iperf scraper: the position of scrape
    scrapeWg,       \* iperf scraper: the WaitGroup of scrape
    testPc          \* iperf scraper: the position of each target's goroutine

vars == <<config, consumer, traceConsumer, stopCh, stopOnce, wg, tracer, panicked,
          startPc, sdPc, pc, ticker, ctxDone, addr, ttl, result, lastErr,
          sentMetrics, sentTraces, probes, invocations, ticksTaken, inflight,
          md, td, validateErr, iperfCfg, iperfErr, mu, scrapePc, scrapeWg, testPc>>

receiverVars == <<config, consumer, traceConsumer, stopCh, stopOnce, wg, tracer>>
invocationVars == <<ctxDone, addr, ttl, result, lastErr, sentMetrics, sentTraces, probes>>
countVars == <<invocations, ticksTaken, inflight>>
batchVars == <<md, td>>
validateVars == <<validateErr, iperfCfg, iperfErr>>
scraperVars == <<mu, scrapePc, scrapeWg, testPc>>

Jobs == DOMAIN config.Targets
Callers == 1..NumCallers

-----------------------------------------------------------------------------
(* The data model.                                                         *)

\* the zero traceResult pointer (nil)
NilResult == [nil |-> TRUE, hops |-> <<>>, totalLatency |-> 0, targetReached |-> FALSE]

\* &traceResult{hops: make([]hopInfo, 0, config.MaxHops)}
NewResult == [nil |-> FALSE, hops |-> <<>>, totalLatency |-> 0, targetReached |-> FALSE]

\* the target list of the scheduler specification's configurations, or a prefix
\* of it: a host name, and the address the first simulated hop answers from
SchedTargets == << [Endpoint |-> "example.com"], [Endpoint |-> "192.168.1.1"] >>

\* the max_hops of the scheduler specification's configurations (the trace
\* specification takes every max_hops up to TraceMaxHops)
SchedMaxHops == {1}

\* the endpoints of the trace specification's configurations: a host name, and
\* the address the second simulated hop answers from
TraceEndpoints == {"example.com", "192.168.1.2"}

\* net.ResolveIPAddr("ip4", endpoint): the addresses it may return; "" is an error.
\* A literal address resolves to itself, a host name to its address or not at all.
ResolveIPAddr(endpoint) ==
    CASE endpoint = "example.com" -> {"", "93.184.216.34"}
      [] OTHER -> {endpoint}

\* the values drawn from math/rand for one hop: lat selects rand.Intn(n) for the
\* latency (0: the least value, 1: the greatest), gate is rand.Float64() < 0.1,
\* loss is rand.Intn(20), jit is rand.Intn(5)
RandDraws == { [lat |-> 0, gate |-> FALSE, loss |-> 0, jit |-> 0],
               [lat |-> 1, gate |-> TRUE, loss |-> 19, jit |-> 4] }

\* rand.Intn(n) under a draw
Intn(n, d) == IF d = 0 THEN 0 ELSE n - 1

\* A float64 is kept as a whole number of 1/FloatScale: 2.5 is 25.
FloatScale == 10

\* float64(n) of an int
Float(n) == n * FloatScale

\* time.Millisecond: a time.Duration is a number of nanoseconds
Millisecond == 1000000

-----------------------------------------------------------------------------
(* tracer.traceHop                                                         *)

HopBase(t) == [ttl |-> t, ip |-> "", hostname |-> "", latency |-> 0, packetLoss |-> 0,
               jitter |-> 0, city |-> "", country |-> "", asn |-> "", provider |-> ""]

\* the switch of traceHop: the simulated scenario of a ttl
HopScenario(t, target, cfg, d) ==
    CASE t <= 3 ->
           [HopBase(t) EXCEPT !.ip = "192.168.1." \o ToString(t),
                              !.latency = Float(Intn(5, d.lat) + 1),
                              !.hostname = "router-" \o ToString(t) \o ".local"]
      [] t > 3 /\ t <= 8 ->
           [HopBase(t) EXCEPT !.ip = "10." \o ToString(t) \o "." \o ToString(t * 10) \o ".1",
                              !.latency = Float(Intn(20, d.lat) + 5),
                              !.hostname = "isp-router-" \o ToString(t) \o ".example.net",
                              !.asn = IF cfg.EnableASNLookup
                                      THEN "AS" \o ToString(64500 + t) ELSE "",
                              !.provider = IF cfg.EnableASNLookup THEN "Example ISP" ELSE ""]
      [] t > 8 /\ t <= 12 ->
           [HopBase(t) EXCEPT !.ip = "203.0." \o ToString(t) \o ".1",
                              !.latency = Float(Intn(50, d.lat) + 20),
                              !.city = IF cfg.EnableGeolocation THEN "San Francisco" ELSE "",
                              !.country = IF cfg.EnableGeolocation THEN "United States" ELSE "",
                              !.asn = IF cfg.EnableASNLookup THEN "AS15169" ELSE "",
                              !.provider = IF cfg.EnableASNLookup THEN "Google LLC" ELSE ""]
      [] t > 12 /\ t >= 15 ->
           [HopBase(t) EXCEPT !.ip = target,
                              !.latency = Float(Intn(100, d.lat) + 50),
                              !.hostname = "target.example.com",
                              !.city = IF cfg.EnableGeolocation THEN "Mountain View" ELSE "",
                              !.country = IF cfg.EnableGeolocation THEN "United States" ELSE ""]
      [] OTHER -> HopBase(t)

traceHop(t, target, cfg, d) ==
    LET hop == HopScenario(t, target, cfg, d)
    IN  [hop EXCEPT !.packetLoss = IF d.gate THEN Float(d.loss) ELSE 0,
                    !.jitter = IF hop.latency > 0 THEN Float(d.jit) ELSE 0]

\* the latencies of the hops added up
RECURSIVE SumLatency(_, _)
SumLatency(hops, acc) ==
    IF hops = <<>> THEN acc ELSE SumLatency(Tail(hops), acc + Head(hops).latency)

\* the latency of the last hop
LastLatency(hops, acc) == IF hops = <<>> THEN acc ELSE hops[Len(hops)].latency

\* the loop after the probing loop: the greatest latency of the hops, from 0
RECURSIVE MaxLatency(_, _)
MaxLatency(hops, acc) ==
    IF hops = <<>> THEN acc
    ELSE MaxLatency(Tail(hops), IF Head(hops).latency > acc THEN Head(hops).latency ELSE acc)

-----------------------------------------------------------------------------
(* ztraceReceiver.runTrace and tracer.trace                                *)

\* the process runs until it panics
Alive == ~panicked

\* runTrace is entered: a fresh context with the configured timeout, then the
\* call of trace (lastErr keeps the error of the invocation before until trace
\* returns)
RunTrace(j) ==
    /\ pc' = [pc EXCEPT ![j] = "resolve"]
    /\ ctxDone' = [ctxDone EXCEPT ![j] = FALSE]
    /\ addr' = [addr EXCEPT ![j] = ""]
    /\ ttl' = [ttl EXCEPT ![j] = 0]
    /\ result' = [result EXCEPT ![j] = NilResult]
    /\ sentMetrics' = [sentMetrics EXCEPT ![j] = "none"]
    /\ sentTraces' = [sentTraces EXCEPT ![j] = "none"]
    /\ probes' = [probes EXCEPT ![j] = 0]
    /\ invocations' = [invocations EXCEPT ![j] = @ + 1]
    /\ inflight' = [inflight EXCEPT ![j] = @ + 1]

\* collect returning when runTrace has met an error
AfterRunTraceFatal(err) == IF err = "none" THEN "select" ELSE "exited"

\* where collect continues when runTrace has returned: the select of its loop,
\* whatever runTrace met
AfterRunTrace(err) == "select"

\* runTrace returns to collect: the deferred cancel runs, the locals of the
\* invocation are dropped
RunTraceReturn(j) ==
    /\ pc' = [pc EXCEPT ![j] = AfterRunTrace(lastErr[j])]
    /\ ctxDone' = [ctxDone EXCEPT ![j] = FALSE]
    /\ addr' = [addr EXCEPT ![j] = ""]
    /\ ttl' = [ttl EXCEPT ![j] = 0]
    /\ result' = [result EXCEPT ![j] = NilResult]
    /\ inflight' = [inflight EXCEPT ![j] = @ - 1]

\* trace returns nil and an error to runTrace
TraceFailed(j, err) ==
    /\ pc' = [pc EXCEPT ![j] = "failed"]
    /\ result' = [result EXCEPT ![j] = NilResult]
    /\ lastErr' = [lastErr EXCEPT ![j] = err]
    /\ UNCHANGED <<ctxDone, sentMetrics, sentTraces, inflight>>

\* trace returns its result and no error to runTrace, after its last loop, which
\* sets the total latency
TraceReturned(j, res) ==
    /\ pc' = [pc EXCEPT ![j] = "metrics"]
    /\ result' = [result EXCEPT ![j] = [res EXCEPT !.totalLatency = MaxLatency(res.hops, 0)]]
    /\ lastErr' = [lastErr EXCEPT ![j] = "none"]
    /\ UNCHANGED <<ctxDone, sentMetrics, sentTraces, inflight>>

\* the probing loop running once too often
LoopConditionOffByOne(t, cfg) == t <= cfg.MaxHops + 1

\* the condition of the probing loop
LoopCondition(t, cfg) == t <= cfg.MaxHops

\* the test of the target comparing the wrong field of the hop
TargetHopByHostname(hop, a) == hop.hostname = a

\* the test that ends the probing loop: the hop is the target
TargetHop(hop, a) == hop.ip = a

\* trace, up to its loop: the resolution of the target's endpoint
TraceResolve(j) ==
    /\ Alive
    /\ pc[j] = "resolve"
    /\ \E a \in ResolveIPAddr(config.Targets[j].Endpoint) :
         IF a = ""
         THEN /\ TraceFailed(j, "resolve")
              /\ UNCHANGED <<addr, ttl, probes>>
         ELSE /\ addr' = [addr EXCEPT ![j] = a]
              /\ ttl' = [ttl EXCEPT ![j] = 1]
              /\ IF LoopCondition(1, config)
                 THEN /\ pc' = [pc EXCEPT ![j] = "loop"]
                      /\ result' = [result EXCEPT ![j] = NewResult]
                      /\ UNCHANGED <<ctxDone, lastErr, sentMetrics, sentTraces, inflight>>
                 ELSE TraceReturned(j, NewResult)
              /\ UNCHANGED probes
    /\ UNCHANGED <<validateVars, scraperVars, batchVars, receiverVars, panicked, startPc, sdPc, ticker, invocations, ticksTaken>>

\* trace probing on whatever the context says
CtxExpiredUnchecked(j) == FALSE

\* trace giving up when the stop channel is closed, too
CtxExpiredOrStopped(j) == ctxDone[j] \/ stopCh = "closed"

\* the select on ctx.Done() at the head of the loop: the context of the
\* invocation, made from context.Background(), is done
CtxExpired(j) == ctxDone[j]

\* one iteration of the loop of trace: the check of the context, the probe, the
\* append, the test of the target; with the last iteration, the total latency
TraceIter(j) ==
    /\ Alive
    /\ pc[j] = "loop"
    /\ IF CtxExpired(j)
       THEN /\ TraceFailed(j, "deadline")
            /\ UNCHANGED <<addr, ttl, probes>>
       ELSE \E d \in RandDraws :
              LET hop == traceHop(ttl[j], addr[j], config, d)
                  res == [result[j] EXCEPT !.hops = Append(@, hop)]
              IN  /\ probes' = [probes EXCEPT ![j] = @ + 1]
                  /\ UNCHANGED addr
                  /\ IF TargetHop(hop, addr[j])
                     THEN /\ TraceReturned(j, [res EXCEPT !.targetReached = TRUE])
                          /\ UNCHANGED ttl
                     ELSE /\ ttl' = [ttl EXCEPT ![j] = @ + 1]
                          /\ IF LoopCondition(ttl[j] + 1, config)
                             THEN /\ result' = [result EXCEPT ![j] = res]
                                  /\ UNCHANGED <<pc, ctxDone, lastErr, sentMetrics,
                                                 sentTraces, inflight>>
                             ELSE TraceReturned(j, res)
    /\ UNCHANGED <<validateVars, scraperVars, batchVars, receiverVars, panicked, startPc, sdPc, ticker, invocations, ticksTaken>>

\* runTrace logging the error of trace and going on to the sinks
RunTraceErrorIgnored(j) ==
    /\ Alive
    /\ pc[j] = "failed"
    /\ pc' = [pc EXCEPT ![j] = "metrics"]
    /\ UNCHANGED <<validateVars, scraperVars, batchVars, receiverVars, panicked, startPc, sdPc, ticker, invocationVars, countVars>>

\* runTrace with the error of trace: it logs the error and returns
RunTraceError(j) ==
    /\ Alive
    /\ pc[j] = "failed"
    /\ RunTraceReturn(j)
    /\ UNCHANGED <<validateVars, scraperVars, batchVars, receiverVars, panicked, startPc, sdPc, ticker, lastErr,
                   sentMetrics, sentTraces, probes, invocations, ticksTaken>>

\* the deadline of the invocation's context passes; trace looks at the context
\* only in its loop
CtxTimeout(j) ==
    /\ Alive
    /\ pc[j] = "loop"
    /\ ~ctxDone[j]
    /\ ctxDone' = [ctxDone EXCEPT ![j] = TRUE]
    /\ UNCHANGED <<validateVars, scraperVars, batchVars, receiverVars, panicked, startPc, sdPc, pc, ticker, addr, ttl, result,
                   lastErr, sentMetrics, sentTraces, probes, countVars>>

\* runTrace returning when the metrics sink rejects the batch
ConsumeMetricsAbort(j) ==
    /\ Alive
    /\ pc[j] = "metrics"
    /\ IF consumer
       THEN \E ok \in BOOLEAN :
              /\ sentMetrics' = [sentMetrics EXCEPT ![j] = IF ok THEN "ok" ELSE "rejected"]
              /\ IF ok
                 THEN /\ pc' = [pc EXCEPT ![j] = "traces"]
                      /\ UNCHANGED <<ctxDone, addr, ttl, result, inflight>>
                 ELSE RunTraceReturn(j)
       ELSE /\ pc' = [pc EXCEPT ![j] = "traces"]
            /\ UNCHANGED <<sentMetrics, ctxDone, addr, ttl, result, inflight>>
    /\ UNCHANGED <<validateVars, scraperVars, batchVars, receiverVars, panicked, startPc, sdPc, ticker, lastErr,
                   sentTraces, probes, invocations, ticksTaken>>

\* runTrace: the metrics batch goes to the metrics sink, which accepts it or not
ConsumeMetrics(j) ==
    /\ Alive
    /\ pc[j] = "metrics"
    /\ IF consumer
       THEN \E ok \in BOOLEAN :
              sentMetrics' = [sentMetrics EXCEPT ![j] = IF ok THEN "ok" ELSE "rejected"]
       ELSE UNCHANGED sentMetrics
    /\ pc' = [pc EXCEPT ![j] = "traces"]
    /\ UNCHANGED <<validateVars, scraperVars, batchVars, receiverVars, panicked, startPc, sdPc, ticker, ctxDone, addr, ttl,
                   result, lastErr, sentTraces, probes, countVars>>

\* runTrace: the trace batch goes to the trace sink, which accepts it or not;
\* then runTrace returns
ConsumeTraces(j) ==
    /\ Alive
    /\ pc[j] = "traces"
    /\ IF traceConsumer
       THEN \E ok \in BOOLEAN :
              sentTraces' = [sentTraces EXCEPT ![j] = IF ok THEN "ok" ELSE "rejected"]
       ELSE UNCHANGED sentTraces
    /\ RunTraceReturn(j)
    /\ UNCHANGED <<validateVars, scraperVars, batchVars, receiverVars, panicked, startPc, sdPc, ticker, lastErr,
                   sentMetrics, probes, invocations, ticksTaken>>

-----------------------------------------------------------------------------
(* ztraceReceiver.collect                                                  *)

\* collect back at its select while runTrace runs, as with go r.runTrace(target)
AtSelectAsync(j) == pc[j] \in {"select", "resolve", "loop", "failed", "metrics", "traces"}

\* collect is at the select of its loop
AtSelect(j) == pc[j] = "select"

\* collect returning without telling the WaitGroup
DoneMissing(n) == n

\* wg.Done()
Done(n) == n - 1

\* collect waiting for its first tick before it runs runTrace
CollectStartNoRun(j) ==
    /\ Alive
    /\ pc[j] = "start"
    /\ ticker' = [ticker EXCEPT ![j] = "empty"]
    /\ pc' = [pc EXCEPT ![j] = "select"]
    /\ UNCHANGED <<validateVars, scraperVars, batchVars, receiverVars, panicked, startPc, sdPc, invocationVars, countVars>>

\* the goroutine starts: the ticker is made, then runTrace runs at once
CollectStart(j) ==
    /\ Alive
    /\ pc[j] = "start"
    /\ ticker' = [ticker EXCEPT ![j] = "empty"]
    /\ RunTrace(j)
    /\ UNCHANGED <<validateVars, scraperVars, batchVars, receiverVars, panicked, startPc, sdPc, lastErr, ticksTaken>>

\* the ticker fires: its channel holds one tick, a tick that finds it full is lost
Tick(j) ==
    /\ Alive
    /\ ticker[j] \in {"empty", "tick"}
    /\ ticker' = [ticker EXCEPT ![j] = "tick"]
    /\ UNCHANGED <<validateVars, scraperVars, batchVars, receiverVars, panicked, startPc, sdPc, pc, invocationVars, countVars>>

\* the receive leaving the tick in the channel
ReceiveKept(t) == t

\* the receive from ticker.C takes the one tick the channel holds
Receive(t) == "empty"

\* select takes case <-ticker.C
CollectTick(j) ==
    /\ Alive
    /\ AtSelect(j)
    /\ ticker[j] = "tick"
    /\ invocations[j] < MaxInvocations
    /\ ticker' = [ticker EXCEPT ![j] = Receive(@)]
    /\ ticksTaken' = [ticksTaken EXCEPT ![j] = @ + 1]
    /\ RunTrace(j)
    /\ UNCHANGED <<validateVars, scraperVars, batchVars, receiverVars, panicked, startPc, sdPc, lastErr>>

\* select takes case <-r.stopCh: collect returns, its defers stop the ticker and
\* tell the WaitGroup
CollectStop(j) ==
    /\ Alive
    /\ AtSelect(j)
    /\ stopCh = "closed"
    /\ pc' = [pc EXCEPT ![j] = "exited"]
    /\ ticker' = [ticker EXCEPT ![j] = "stopped"]
    /\ wg' = Done(wg)
    /\ UNCHANGED <<validateVars, scraperVars, batchVars, config, consumer, traceConsumer, stopCh, stopOnce, tracer, panicked,
                   startPc, sdPc, invocationVars, countVars>>

-----------------------------------------------------------------------------
(* ztraceReceiver.Start                                                    *)

\* the targets Start has launched a goroutine for
Launched == {j \in Jobs : pc[j] # "none"}

\* Start makes the stop channel and the tracer
StartMake ==
    /\ Alive
    /\ startPc = "init"
    /\ \A c \in Callers : sdPc[c] = "idle"
    /\ stopCh' = "open"
    /\ tracer' = "set"
    /\ startPc' = "launching"
    /\ UNCHANGED <<validateVars, scraperVars, batchVars, config, consumer, traceConsumer, stopOnce, wg, panicked, sdPc, pc,
                   ticker, invocationVars, countVars>>

\* the step of Start's loop for the next target: wg.Add(1); go r.collect(target)
StartGo ==
    /\ Alive
    /\ startPc = "launching"
    /\ Launched # Jobs
    /\ LET j == Cardinality(Launched) + 1
       IN  /\ wg' = wg + 1
           /\ pc' = [pc EXCEPT ![j] = "start"]
    /\ UNCHANGED <<validateVars, scraperVars, batchVars, config, consumer, traceConsumer, stopCh, stopOnce, tracer, panicked,
                   startPc, sdPc, ticker, invocationVars, countVars>>

\* Start returns nil
StartReturn ==
    /\ Alive
    /\ startPc = "launching"
    /\ Launched = Jobs
    /\ startPc' = "returned"
    /\ UNCHANGED <<validateVars, scraperVars, batchVars, receiverVars, panicked, sdPc, pc, ticker, invocationVars, countVars>>

-----------------------------------------------------------------------------
(* ztraceReceiver.Shutdown                                                 *)

\* the close of the stop channel outside a sync.Once
OnceMissing == TRUE

\* sync.Once: the function of Do has not run yet
OnceFresh == ~stopOnce

\* Shutdown returning without wg.Wait()
WaitMissing == TRUE

\* wg.Wait() returns
WaitOver == wg = 0

\* Shutdown is called, while Start is not running: r.stopOnce.Do(close(r.stopCh)).
\* The close of a nil channel, or of a closed one, panics.
ShutdownOnce(c) ==
    /\ Alive
    /\ sdPc[c] = "idle"
    /\ startPc \in {"init", "returned"}
    /\ IF OnceFresh
       THEN /\ stopOnce' = TRUE
            /\ IF stopCh = "open"
               THEN /\ stopCh' = "closed"
                    /\ sdPc' = [sdPc EXCEPT ![c] = "wait"]
                    /\ UNCHANGED panicked
               ELSE /\ panicked' = TRUE
                    /\ sdPc' = [sdPc EXCEPT ![c] = "panicked"]
                    /\ UNCHANGED stopCh
       ELSE /\ sdPc' = [sdPc EXCEPT ![c] = "wait"]
            /\ UNCHANGED <<stopCh, stopOnce, panicked>>
    /\ UNCHANGED <<validateVars, scraperVars, batchVars, config, consumer, traceConsumer, wg, tracer, startPc, pc, ticker,
                   invocationVars, countVars>>

\* r.wg.Wait() returns, the tracer is closed, Shutdown returns nil
ShutdownReturn(c) ==
    /\ Alive
    /\ sdPc[c] = "wait"
    /\ WaitOver
    /\ sdPc' = [sdPc EXCEPT ![c] = "returned"]
    /\ UNCHANGED <<validateVars, scraperVars, batchVars, receiverVars, panicked, startPc, pc, ticker, invocationVars, countVars>>

-----------------------------------------------------------------------------
(* ztraceReceiver.convertToMetrics                                         *)

\* pcommon.Map.PutStr, PutInt, PutDouble: the key takes the value
Put(m, k, v) == (k :> v) @@ m

\* a pcommon.Map with no entry
NoAttrs == <<>>

\* the resource attributes of a metrics batch; the target's tags are put last
MetricsResource(target, cfg) ==
    LET a1 == Put(NoAttrs, "ztrace.target", target.Endpoint)
        a2 == Put(a1, "ztrace.protocol", cfg.Protocol)
        a3 == IF target.Port > 0 THEN Put(a2, "ztrace.port", target.Port) ELSE a2
    IN  target.Tags @@ a3

\* the geolocation attributes go out whatever the configuration says
WithGeolocationUnflagged(hop, cfg) == hop.city # ""

\* the test both projections make before the geolocation attributes of a hop
WithGeolocation(hop, cfg) == cfg.EnableGeolocation /\ hop.city # ""

\* the test both projections make before the ASN attributes of a hop
WithASN(hop, cfg) == cfg.EnableASNLookup /\ hop.asn # ""

\* every hop takes the packet-loss sample and attribute
HasPacketLossAlways(hop) == TRUE

\* the test both projections make before the packet loss of a hop
HasPacketLoss(hop) == hop.packetLoss > 0

\* the test both projections make before the jitter of a hop
HasJitter(hop) == hop.jitter > 0

\* the data point of ztrace.hop.latency for a hop
LatencyMetric(hop, cfg, timestamp) ==
    LET a1 == Put(NoAttrs, "ttl", hop.ttl)
        a2 == Put(a1, "ip", hop.ip)
        a3 == IF hop.hostname # "" THEN Put(a2, "hostname", hop.hostname) ELSE a2
        a4 == IF WithGeolocation(hop, cfg)
              THEN Put(Put(a3, "city", hop.city), "country", hop.country) ELSE a3
        a5 == IF WithASN(hop, cfg)
              THEN Put(Put(a4, "asn", hop.asn), "provider", hop.provider) ELSE a4
    IN  [name |-> "ztrace.hop.latency", unit |-> "ms", value |-> hop.latency,
         timestamp |-> timestamp, attrs |-> a5]

\* the data point of ztrace.hop.packet_loss or ztrace.hop.jitter for a hop
HopMetric(name, unit, value, hop, timestamp) ==
    [name |-> name, unit |-> unit, value |-> value, timestamp |-> timestamp,
     attrs |-> Put(Put(NoAttrs, "ttl", hop.ttl), "ip", hop.ip)]

\* the body of the loop over the hops: the metrics one hop appends
HopMetrics(hop, cfg, timestamp) ==
    <<LatencyMetric(hop, cfg, timestamp)>>
    \o (IF HasPacketLoss(hop)
        THEN <<HopMetric("ztrace.hop.packet_loss", "%", hop.packetLoss, hop, timestamp)>>
        ELSE <<>>)
    \o (IF HasJitter(hop)
        THEN <<HopMetric("ztrace.hop.jitter", "ms", hop.jitter, hop, timestamp)>>
        ELSE <<>>)

\* the loop over the hops
RECURSIVE AllHopMetrics(_, _, _)
AllHopMetrics(hops, cfg, timestamp) ==
    IF hops = <<>> THEN <<>>
    ELSE HopMetrics(Head(hops), cfg, timestamp) \o AllHopMetrics(Tail(hops), cfg, timestamp)

\* the summary metrics with the total latency whatever it is
TraceMetricsUnguarded(res, timestamp) ==
    << [name |-> "ztrace.total_latency", unit |-> "ms", value |-> res.totalLatency,
        timestamp |-> timestamp, attrs |-> NoAttrs],
       [name |-> "ztrace.hop_count", unit |-> "1", value |-> Len(res.hops),
        timestamp |-> timestamp, attrs |-> NoAttrs] >>

\* the summary metrics of the trace: the total latency, the number of hops
TraceMetrics(res, timestamp) ==
    (IF res.totalLatency > 0
     THEN << [name |-> "ztrace.total_latency", unit |-> "ms", value |-> res.totalLatency,
              timestamp |-> timestamp, attrs |-> NoAttrs] >>
     ELSE <<>>)
    \o << [name |-> "ztrace.hop_count", unit |-> "1", value |-> Len(res.hops),
           timestamp |-> timestamp, attrs |-> NoAttrs] >>

\* no metrics batch
NoMetrics == [resource |-> NoAttrs, scope |-> "", metrics |-> <<>>]

\* the batch: one resource, one scope, its metrics in the order they are appended
convertToMetrics(res, target, cfg, timestamp) ==
    [resource |-> MetricsResource(target, cfg),
     scope |-> "ztrace",
     metrics |-> AllHopMetrics(res.hops, cfg, timestamp) \o TraceMetrics(res, timestamp)]

-----------------------------------------------------------------------------
(* ztraceReceiver.convertToTraces                                          *)

\* the resource attributes of a trace batch; the target's tags are put last
TracesResource(target, cfg) ==
    LET a1 == Put(NoAttrs, "ztrace.target", target.Endpoint)
        a2 == Put(a1, "ztrace.protocol", cfg.Protocol)
        a3 == Put(a2, "service.name", "ztrace")
        a4 == IF target.Port > 0 THEN Put(a3, "ztrace.port", target.Port) ELSE a3
    IN  target.Tags @@ a4

\* time.Duration(f) of a float64: the fraction is dropped
Duration(f) == f \div FloatScale

\* pcommon.TraceID([16]byte{}): the identifier of every trace
TraceID == [i \in 1..16 |-> 0]

\* pcommon.SpanID([8]byte{}): the identifier of every root span, and the parent
\* span identifier of a span that has no parent
RootSpanID == [i \in 1..8 |-> 0]

\* pcommon.SpanID([8]byte{byte(hop.ttl)})
HopSpanID(hop) == [i \in 1..8 |-> IF i = 1 THEN hop.ttl % 256 ELSE 0]

\* the event at the threshold too
HighPacketLossAtThreshold(hop) == hop.packetLoss >= Float(50)

\* the test before the high_packet_loss event
HighPacketLoss(hop) == hop.packetLoss > Float(50)

\* the span of a hop
HopSpan(hop, cfg, startTime) ==
    LET hopEndTime == startTime + Duration(hop.latency) * Millisecond
        a1 == Put(NoAttrs, "ttl", hop.ttl)
        a2 == Put(a1, "ip", hop.ip)
        a3 == Put(a2, "latency.ms", hop.latency)
        a4 == IF hop.hostname # "" THEN Put(a3, "hostname", hop.hostname) ELSE a3
        a5 == IF HasPacketLoss(hop) THEN Put(a4, "packet_loss.percent", hop.packetLoss) ELSE a4
        a6 == IF HasJitter(hop) THEN Put(a5, "jitter.ms", hop.jitter) ELSE a5
        a7 == IF WithGeolocation(hop, cfg)
              THEN Put(Put(a6, "geo.city", hop.city), "geo.country", hop.country) ELSE a6
        a8 == IF WithASN(hop, cfg)
              THEN Put(Put(a7, "network.asn", hop.asn), "network.provider", hop.provider)
              ELSE a7
    IN  [name |-> "hop " \o ToString(hop.ttl) \o ": " \o hop.ip,
         kind |-> "client",
         traceID |-> TraceID,
         spanID |-> HopSpanID(hop),
         parentSpanID |-> RootSpanID,
         startTimestamp |-> startTime,
         endTimestamp |-> hopEndTime,
         attrs |-> a8,
         events |-> IF HighPacketLoss(hop)
                    THEN << [name |-> "high_packet_loss", timestamp |-> hopEndTime,
                             attrs |-> Put(NoAttrs, "packet_loss.percent", hop.packetLoss)] >>
                    ELSE <<>>]

\* the loop over the hops leaving out the hops that did not answer
RECURSIVE HopSpansAnswered(_, _, _)
HopSpansAnswered(hops, cfg, startTime) ==
    IF hops = <<>> THEN <<>>
    ELSE (IF Head(hops).ip = "" THEN <<>> ELSE <<HopSpan(Head(hops), cfg, startTime)>>)
         \o HopSpansAnswered(Tail(hops), cfg, startTime)

\* the loop over the hops
RECURSIVE HopSpans(_, _, _)
HopSpans(hops, cfg, startTime) ==
    IF hops = <<>> THEN <<>>
    ELSE <<HopSpan(Head(hops), cfg, startTime)>> \o HopSpans(Tail(hops), cfg, startTime)

\* the root span; now and later are the two readings of the clock
RootSpan(res, target, now, later) ==
    [name |-> "traceroute to " \o target.Endpoint,
     kind |-> "client",
     traceID |-> TraceID,
     spanID |-> RootSpanID,
     parentSpanID |-> RootSpanID,
     startTimestamp |-> now - Duration(res.totalLatency) * Millisecond,
     endTimestamp |-> later,
     attrs |-> Put(Put(NoAttrs, "hop.count", Len(res.hops)),
                   "total.latency.ms", res.totalLatency),
     events |-> <<>>]

\* no trace batch
NoTraces == [resource |-> NoAttrs, scope |-> "", spans |-> <<>>]

\* the batch: one resource, one scope, the root span and then the hop spans
convertToTraces(res, target, cfg, now, later) ==
    LET root == RootSpan(res, target, now, later)
    IN  [resource |-> TracesResource(target, cfg),
         scope |-> "ztrace",
         spans |-> <<root>> \o HopSpans(res.hops, cfg, root.startTimestamp)]

\* the clock readings at which a projection begins, in nanoseconds since the
\* epoch (one second after it)
ClockReadings == {1000 * Millisecond}

\* the time that passes between two readings of the clock that follow each
\* other, in nanoseconds
Elapsed == {0, 250}

\* the metrics projection of the job's result
ConvertToMetrics(j) ==
    /\ Alive
    /\ pc[j] = "convertToMetrics"
    /\ \E now \in ClockReadings :
         md' = [md EXCEPT ![j] = convertToMetrics(result[j], config.Targets[j], config, now)]
    /\ pc' = [pc EXCEPT ![j] = "convertToTraces"]
    /\ UNCHANGED <<receiverVars, panicked, startPc, sdPc, ticker, invocationVars,
                   countVars, td, validateVars, scraperVars>>

\* the trace projection of the job's result; the clock is read twice
ConvertToTraces(j) ==
    /\ Alive
    /\ pc[j] = "convertToTraces"
    /\ \E now \in ClockReadings, e \in Elapsed :
         td' = [td EXCEPT ![j] =
                   convertToTraces(result[j], config.Targets[j], config, now, now + e)]
    /\ pc' = [pc EXCEPT ![j] = "converted"]
    /\ UNCHANGED <<receiverVars, panicked, startPc, sdPc, ticker, invocationVars,
                   countVars, md, validateVars, scraperVars>>

\* the last loop of trace on the hops the probing loop has recorded
TotalLatency(j) ==
    /\ Alive
    /\ pc[j] = "totalLatency"
    /\ result' = [result EXCEPT ![j] =
                     [@ EXCEPT !.totalLatency = MaxLatency(result[j].hops, @)]]
    /\ pc' = [pc EXCEPT ![j] = "convertToMetrics"]
    /\ UNCHANGED <<validateVars, scraperVars, batchVars, receiverVars, panicked, startPc, sdPc, ticker, ctxDone, addr,
                   ttl, lastErr, sentMetrics, sentTraces, probes, countVars>>

-----------------------------------------------------------------------------
(* The iperf receiver: its configuration and its scraper, at rest.         *)

\* the Config of createDefaultConfig
IperfDefaultConfig == [Mode |-> "client", ServerPort |-> 5201, Targets |-> <<>>]

\* Validate has not returned
NotReturned == [returned |-> FALSE, errs |-> <<>>]

\* no Validate has been called
ValidateIdle ==
    /\ validateErr = "pending"
    /\ iperfErr = NotReturned

\* the scraper of newScraper, with no scrape running
ScraperIdle ==
    /\ mu = FALSE
    /\ scrapePc = "idle"
    /\ scrapeWg = 0
    /\ testPc = [i \in DOMAIN iperfCfg.Targets |-> "none"]

\* the iperf receiver of its factory, untouched
IperfIdle ==
    /\ iperfCfg = IperfDefaultConfig
    /\ ValidateIdle
    /\ ScraperIdle

-----------------------------------------------------------------------------
(* The receiver, from its construction.                                    *)

\* the configurations of the scheduler specification: createDefaultConfig with
\* one target or more, and max_hops as Validate admits it
SchedConfigs ==
    { [Targets |-> SubSeq(SchedTargets, 1, n), MaxHops |-> m,
       EnableGeolocation |-> TRUE, EnableASNLookup |-> TRUE] :
        n \in 1..Len(SchedTargets), m \in SchedMaxHops }

\* the receiver as built: its sinks, and every other field zero
Created ==
    /\ stopCh = "nil"
    /\ stopOnce = FALSE
    /\ wg = 0
    /\ tracer = "nil"
    /\ panicked = FALSE
    /\ startPc = "init"
    /\ sdPc = [c \in Callers |-> "idle"]
    /\ pc = [j \in Jobs |-> "none"]
    /\ ticker = [j \in Jobs |-> "none"]
    /\ ctxDone = [j \in Jobs |-> FALSE]
    /\ addr = [j \in Jobs |-> ""]
    /\ ttl = [j \in Jobs |-> 0]
    /\ result = [j \in Jobs |-> NilResult]
    /\ lastErr = [j \in Jobs |-> "none"]
    /\ sentMetrics = [j \in Jobs |-> "none"]
    /\ sentTraces = [j \in Jobs |-> "none"]
    /\ probes = [j \in Jobs |-> 0]
    /\ invocations = [j \in Jobs |-> 0]
    /\ ticksTaken = [j \in Jobs |-> 0]
    /\ inflight = [j \in Jobs |-> 0]
    /\ md = [j \in Jobs |-> NoMetrics]
    /\ td = [j \in Jobs |-> NoTraces]

\* the receiver as built, with the iperf receiver untouched
Built ==
    /\ Created
    /\ IperfIdle

Init ==
    /\ config \in SchedConfigs
    /\ consumer \in BOOLEAN
    /\ traceConsumer \in BOOLEAN
    /\ consumer \/ traceConsumer
    /\ Built

Next ==
    \/ StartMake
    \/ StartGo
    \/ StartReturn
    \/ \E c \in Callers : ShutdownOnce(c)
    \/ \E c \in Callers : ShutdownReturn(c)
    \/ \E j \in Jobs : CollectStart(j)
    \/ \E j \in Jobs : Tick(j)
    \/ \E j \in Jobs : CollectTick(j)
    \/ \E j \in Jobs : CollectStop(j)
    \/ \E j \in Jobs : TraceResolve(j)
    \/ \E j \in Jobs : TraceIter(j)
    \/ \E j \in Jobs : RunTraceError(j)
    \/ \E j \in Jobs : CtxTimeout(j)
    \/ \E j \in Jobs : ConsumeMetrics(j)
    \/ \E j \in Jobs : ConsumeTraces(j)

Spec == Init /\ [][Next]_vars

-----------------------------------------------------------------------------
(* One invocation of runTrace, for the claims about trace.                 *)

\* the configurations of the trace specification: one target, max_hops as
\* Validate admits it, the enrichment flags either way
TraceConfigs ==
    { [Targets |-> << [Endpoint |-> e] >>, MaxHops |-> m,
       EnableGeolocation |-> g, EnableASNLookup |-> a] :
        e \in TraceEndpoints, m \in 1..TraceMaxHops, g \in BOOLEAN, a \in BOOLEAN }

\* a started receiver with both sinks whose one job has just entered runTrace
TraceInit ==
    /\ config \in TraceConfigs
    /\ consumer = TRUE
    /\ traceConsumer = TRUE
    /\ stopCh = "open"
    /\ stopOnce = FALSE
    /\ wg = 1
    /\ tracer = "set"
    /\ panicked = FALSE
    /\ startPc = "returned"
    /\ sdPc = [c \in Callers |-> "idle"]
    /\ pc = [j \in Jobs |-> "resolve"]
    /\ ticker = [j \in Jobs |-> "empty"]
    /\ ctxDone = [j \in Jobs |-> FALSE]
    /\ addr = [j \in Jobs |-> ""]
    /\ ttl = [j \in Jobs |-> 0]
    /\ result = [j \in Jobs |-> NilResult]
    /\ lastErr = [j \in Jobs |-> "none"]
    /\ sentMetrics = [j \in Jobs |-> "none"]
    /\ sentTraces = [j \in Jobs |-> "none"]
    /\ probes = [j \in Jobs |-> 0]
    /\ invocations = [j \in Jobs |-> 1]
    /\ ticksTaken = [j \in Jobs |-> 0]
    /\ inflight = [j \in Jobs |-> 1]
    /\ md = [j \in Jobs |-> NoMetrics]
    /\ td = [j \in Jobs |-> NoTraces]
    /\ IperfIdle

TraceNext ==
    \/ \E j \in Jobs : TraceResolve(j)
    \/ \E j \in Jobs : TraceIter(j)
    \/ \E j \in Jobs : RunTraceError(j)
    \/ \E j \in Jobs : CtxTimeout(j)
    \/ \E j \in Jobs : ConsumeMetrics(j)
    \/ \E j \in Jobs : ConsumeTraces(j)

TraceSpec == TraceInit /\ [][TraceNext]_vars

-----------------------------------------------------------------------------
(* The scheduler with the fairness of its scheduling: a goroutine that can *)
(* step does step; a select whose stop case is ready again and again takes *)
(* it in the end, select choosing among its ready cases at random.         *)

JobIds == 1..Len(SchedTargets)

\* the steps of a job that nothing but the job itself holds up
JobStep(j) ==
    \/ CollectStart(j)
    \/ TraceResolve(j)
    \/ TraceIter(j)
    \/ RunTraceError(j)
    \/ ConsumeMetrics(j)
    \/ ConsumeTraces(j)

Fairness ==
    /\ \A j \in JobIds : WF_vars(j \in Jobs /\ JobStep(j))
    /\ \A j \in JobIds : SF_vars(j \in Jobs /\ CollectStop(j))
    /\ \A c \in Callers : WF_vars(ShutdownReturn(c))

\* the receiver as createMetricsReceiver builds it
FairInit ==
    /\ config \in SchedConfigs
    /\ consumer = TRUE
    /\ traceConsumer = FALSE
    /\ Built

FairSpec == FairInit /\ [][Next]_vars /\ Fairness

-----------------------------------------------------------------------------
(* The total latency and the two projections, on results of any hops.      *)

\* the longest hop sequence of a result of the projection specification
ProjMaxHops == 3

\* the targets of the projection specification's configurations: the target of
\* TestConvertToMetrics, and a target with no port and no tag
ProjTargets ==
    << [Endpoint |-> "example.com", Port |-> 80, Tags |-> ("env" :> "test")],
       [Endpoint |-> "192.168.1.1", Port |-> 0, Tags |-> NoAttrs] >>

\* the configurations of the projection specification: one target, the
\* enrichment flags either way
ProjConfigs ==
    { [Targets |-> <<ProjTargets[n]>>, MaxHops |-> ProjMaxHops, Protocol |-> "icmp",
       EnableGeolocation |-> g, EnableASNLookup |-> a] :
        n \in 1..Len(ProjTargets), g \in BOOLEAN, a \in BOOLEAN }

\* the hops of the projection specification's results, their ttl left open: a
\* hop that did not answer; a hop with no latency that has a jitter, and a loss
\* of 50; the first hop of TestConvertToMetrics with a loss of 40; the second
\* hop of TestConvertToTraces, with the jitter of the one of TestConvertToMetrics
ProjHops ==
    { HopBase(0),
      [HopBase(0) EXCEPT !.ip = "10.9.9.1", !.jitter = Float(3), !.packetLoss = Float(50)],
      [HopBase(0) EXCEPT !.ip = "192.168.1.1", !.hostname = "router.local", !.latency = 25,
                         !.packetLoss = Float(40), !.jitter = 5,
                         !.city = "San Francisco", !.country = "US",
                         !.asn = "AS15169", !.provider = "Google"],
      [HopBase(0) EXCEPT !.ip = "10.0.0.1", !.hostname = "gateway.isp.net", !.latency = 102,
                         !.packetLoss = Float(60), !.jitter = 12] }

\* the hop sequences of the results: the ttl of a hop is its place
ProjHopSeqs ==
    UNION { { [i \in 1..n |-> [f[i] EXCEPT !.ttl = i]] : f \in [1..n -> ProjHops] } :
              n \in 0..ProjMaxHops }

\* each job holds the result of a probing loop that has ended
Probed(configs, hopSeqs) ==
    /\ config \in configs
    /\ consumer = TRUE
    /\ traceConsumer = TRUE
    /\ stopCh = "open"
    /\ stopOnce = FALSE
    /\ wg = Len(config.Targets)
    /\ tracer = "set"
    /\ panicked = FALSE
    /\ startPc = "returned"
    /\ sdPc = [c \in Callers |-> "idle"]
    /\ pc = [j \in Jobs |-> "totalLatency"]
    /\ ticker = [j \in Jobs |-> "empty"]
    /\ ctxDone = [j \in Jobs |-> FALSE]
    /\ addr = [j \in Jobs |-> ""]
    /\ ttl = [j \in Jobs |-> 0]
    /\ result \in [Jobs -> { [NewResult EXCEPT !.hops = hs] : hs \in hopSeqs }]
    /\ lastErr = [j \in Jobs |-> "none"]
    /\ sentMetrics = [j \in Jobs |-> "none"]
    /\ sentTraces = [j \in Jobs |-> "none"]
    /\ probes = [j \in Jobs |-> 0]
    /\ invocations = [j \in Jobs |-> 1]
    /\ ticksTaken = [j \in Jobs |-> 0]
    /\ inflight = [j \in Jobs |-> 1]
    /\ md = [j \in Jobs |-> NoMetrics]
    /\ td = [j \in Jobs |-> NoTraces]
    /\ IperfIdle

ProjInit == Probed(ProjConfigs, ProjHopSeqs)

ProjNext ==
    \/ \E j \in Jobs : TotalLatency(j)
    \/ \E j \in Jobs : ConvertToMetrics(j)
    \/ \E j \in Jobs : ConvertToTraces(j)

ProjSpec == ProjInit /\ [][ProjNext]_vars

\* two targets whose runs overlap: each job holds a result of one hop at most
RunsConfigs ==
    { [Targets |-> ProjTargets, MaxHops |-> 1, Protocol |-> "icmp",
       EnableGeolocation |-> g, EnableASNLookup |-> a] : g \in BOOLEAN, a \in BOOLEAN }

RunsInit == Probed(RunsConfigs, {hs \in ProjHopSeqs : Len(hs) <= 1})

RunsSpec == RunsInit /\ [][ProjNext]_vars

-----------------------------------------------------------------------------
(* Config.Validate of the ztrace receiver                                  *)

\* the most targets of a configuration under validation
ValidateMaxTargets == 2

\* the port check applied whatever the protocol
PortMissingAnyProtocol(cfg, target) == target.Port <= 0

\* the second check of a target: a port is needed unless the protocol is icmp
PortMissing(cfg, target) == cfg.Protocol # "icmp" /\ target.Port <= 0

\* the loop over the targets, from the target of index i (Go counts from 0):
\* the error of the first check that fails, "nil" when none does
RECURSIVE ValidateTargets(_, _)
ValidateTargets(cfg, i) ==
    IF i > Len(cfg.Targets) THEN "nil"
    ELSE IF cfg.Targets[i].Endpoint = ""
         THEN "target[" \o ToString(i - 1) \o "]: endpoint cannot be empty"
    ELSE IF PortMissing(cfg, cfg.Targets[i])
         THEN "target[" \o ToString(i - 1) \o "]: port must be specified for "
                  \o cfg.Protocol \o " protocol"
    ELSE ValidateTargets(cfg, i + 1)

\* Config.Validate: the error it returns, "nil" for no error; durations are in
\* seconds
Validate(cfg) ==
    IF Len(cfg.Targets) = 0 THEN "at least one target must be specified"
    ELSE IF ValidateTargets(cfg, 1) # "nil" THEN ValidateTargets(cfg, 1)
    ELSE IF cfg.CollectionInterval <= 0 THEN "collection_interval must be positive"
    ELSE IF cfg.Timeout <= 0 THEN "timeout must be positive"
    ELSE IF cfg.Protocol # "udp" /\ cfg.Protocol # "icmp" /\ cfg.Protocol # "tcp"
         THEN "invalid protocol \"" \o cfg.Protocol \o "\", must be one of: udp, icmp, tcp"
    ELSE IF cfg.MaxHops <= 0 \/ cfg.MaxHops > 64 THEN "max_hops must be between 1 and 64"
    ELSE IF cfg.PacketSize <= 0 \/ cfg.PacketSize > 65535
         THEN "packet_size must be between 1 and 65535"
    ELSE IF cfg.Retries < 0 THEN "retries must be non-negative"
    ELSE "nil"

\* the targets a configuration under validation is made of
ValidateTargetSet ==
    { [Endpoint |-> e, Port |-> p, Tags |-> NoAttrs] : e \in {"", "example.com"}, p \in {0, 80} }

\* the sequences of at most n elements of S
SeqsUpTo(S, n) == UNION { [1..k -> S] : k \in 0..n }

\* the configurations under validation: every check passing or failing, the
\* ranges at both of their ends
ValidateConfigs ==
    { [Targets |-> ts, CollectionInterval |-> ci, Timeout |-> to, Protocol |-> pr,
       MaxHops |-> mh, PacketSize |-> ps, Retries |-> re,
       EnableGeolocation |-> TRUE, EnableASNLookup |-> TRUE] :
        ts \in SeqsUpTo(ValidateTargetSet, ValidateMaxTargets),
        ci \in {0, 60}, to \in {0, 10}, pr \in {"udp", "icmp", "tcp", "raw"},
        mh \in {0, 1, 64, 65}, ps \in {0, 1, 65535, 65536}, re \in {-1, 0} }

\* cfg.Validate() on the configuration of a receiver not yet started
ValidateConfig ==
    /\ validateErr = "pending"
    /\ validateErr' = Validate(config)
    /\ UNCHANGED <<iperfCfg, iperfErr, scraperVars, batchVars, receiverVars, panicked,
                   startPc, sdPc, pc, ticker, invocationVars, countVars>>

ValidateInit ==
    /\ config \in ValidateConfigs
    /\ consumer = TRUE
    /\ traceConsumer = TRUE
    /\ Built

ValidateNext == ValidateConfig

ValidateSpec == ValidateInit /\ [][ValidateNext]_vars

-----------------------------------------------------------------------------
(* Config.Validate of the iperf receiver                                   *)

\* the most targets of an iperf configuration
IperfMaxTargets == 2

\* an error list that keeps its first error only
KeepFirst(err, e) == IF err = <<>> THEN <<e>> ELSE err

\* multierr.Append: the errors so far and one more; no error is the empty list
MultierrAppend(err, e) == err \o <<e>>

\* the message of a multierr: the messages of its errors joined by "; "
RECURSIVE ErrorString(_)
ErrorString(err) ==
    IF err = <<>> THEN ""
    ELSE IF Len(err) = 1 THEN err[1]
    ELSE err[1] \o "; " \o ErrorString(Tail(err))

\* TargetConfig.Validate on the target its receiver points to: the target as it
\* leaves it, the defaults set, and the errors it returns; durations in seconds
TargetValidate(target) ==
    LET e1 == IF target.Host = "" THEN MultierrAppend(<<>>, "host cannot be empty") ELSE <<>>
        e2 == IF target.Port < 1 \/ target.Port > 65535
              THEN MultierrAppend(e1, "port must be between 1 and 65535") ELSE e1
        t3 == IF target.Duration <= 0 THEN [target EXCEPT !.Duration = 10] ELSE target
        e4 == IF t3.Streams < 0 THEN MultierrAppend(e2, "streams must be positive") ELSE e2
        t4 == IF t3.Streams = 0 THEN [t3 EXCEPT !.Streams = 1] ELSE t3
        t5 == IF t4.Protocol = "" THEN [t4 EXCEPT !.Protocol = "tcp"] ELSE t4
        e5 == IF t4.Protocol # "" /\ t4.Protocol # "tcp" /\ t4.Protocol # "udp"
                  /\ t4.Protocol # "sctp"
              THEN MultierrAppend(e4, "invalid protocol: " \o t4.Protocol
                                          \o ", must be tcp, udp, or sctp")
              ELSE e4
        e6 == IF t5.OmitSec < 0 THEN MultierrAppend(e5, "omit seconds cannot be negative")
              ELSE e5
        e7 == IF t5.MSS < 0 THEN MultierrAppend(e6, "MSS cannot be negative") ELSE e6
    IN  [target |-> t5, errs |-> e7]

\* the loop over cfg.Targets from index i with the errors so far: target is the
\* loop's own copy of the element, so what target.Validate() sets stays in the
\* copy and only its error is kept
RECURSIVE RangeTargets(_, _, _)
RangeTargets(targets, i, err) ==
    IF i > Len(targets) THEN err
    ELSE LET target == targets[i]
             targetErr == TargetValidate(target).errs
         IN  RangeTargets(targets, i + 1,
                 IF targetErr # <<>>
                 THEN MultierrAppend(err, "target[" \o ToString(i - 1) \o "]: "
                                              \o ErrorString(targetErr))
                 ELSE err)

\* Config.Validate of the iperf receiver: the configuration as it leaves it and
\* the errors it returns
IperfValidate(cfg) ==
    LET e1 == IF cfg.Mode # "client" /\ cfg.Mode # "server" /\ cfg.Mode # ""
              THEN MultierrAppend(<<>>, "invalid mode: " \o cfg.Mode
                                            \o ", must be 'client' or 'server'")
              ELSE <<>>
        c2 == IF cfg.Mode = "" THEN [cfg EXCEPT !.Mode = "client"] ELSE cfg
        e3 == IF c2.Mode = "server" /\ (c2.ServerPort < 1 \/ c2.ServerPort > 65535)
              THEN MultierrAppend(e1, "port must be between 1 and 65535") ELSE e1
        e4 == IF c2.Mode = "client" /\ Len(c2.Targets) = 0
              THEN MultierrAppend(e3, "at least one target must be configured") ELSE e3
        e5 == IF c2.Mode = "client" THEN RangeTargets(c2.Targets, 1, e4) ELSE e4
    IN  [cfg |-> c2, errs |-> e5]

\* the targets of the iperf configurations: the targets of
\* TestTargetConfigValidate (all fields set; the defaults left to Validate; each
\* one field wrong), a target with a negative duration and the highest port, and
\* a target with every field wrong
IperfTargetSet ==
    { [Host |-> "localhost", Port |-> 5201, Duration |-> 30, Streams |-> 4,
       Protocol |-> "tcp", OmitSec |-> 0, MSS |-> 1460],
      [Host |-> "localhost", Port |-> 5201, Duration |-> 0, Streams |-> 0,
       Protocol |-> "", OmitSec |-> 0, MSS |-> 0],
      [Host |-> "localhost", Port |-> 65535, Duration |-> -1, Streams |-> 1,
       Protocol |-> "udp", OmitSec |-> 0, MSS |-> 0],
      [Host |-> "", Port |-> 5201, Duration |-> 0, Streams |-> 0,
       Protocol |-> "", OmitSec |-> 0, MSS |-> 0],
      [Host |-> "localhost", Port |-> 0, Duration |-> 0, Streams |-> 0,
       Protocol |-> "", OmitSec |-> 0, MSS |-> 0],
      [Host |-> "localhost", Port |-> 70000, Duration |-> 0, Streams |-> 0,
       Protocol |-> "", OmitSec |-> 0, MSS |-> 0],
      [Host |-> "localhost", Port |-> 5201, Duration |-> 0, Streams |-> -1,
       Protocol |-> "", OmitSec |-> 0, MSS |-> 0],
      [Host |-> "localhost", Port |-> 5201, Duration |-> 10, Streams |-> 1,
       Protocol |-> "sctp", OmitSec |-> -1, MSS |-> 0],
      [Host |-> "localhost", Port |-> 5201, Duration |-> 10, Streams |-> 1,
       Protocol |-> "tcp", OmitSec |-> 0, MSS |-> -1],
      [Host |-> "", Port |-> 0, Duration |-> 0, Streams |-> -1,
       Protocol |-> "invalid", OmitSec |-> -1, MSS |-> -1] }

\* the iperf configurations: every mode, the server port in and out of its
\* range, no target or more
IperfConfigs ==
    { [Mode |-> mo, ServerPort |-> sp, Targets |-> ts] :
        mo \in {"", "client", "server", "invalid"}, sp \in {0, 5201, 65536},
        ts \in SeqsUpTo(IperfTargetSet, IperfMaxTargets) }

\* cfg.Validate() on an iperf configuration
IperfValidateConfig ==
    /\ ~iperfErr.returned
    /\ iperfCfg' = IperfValidate(iperfCfg).cfg
    /\ iperfErr' = [returned |-> TRUE, errs |-> IperfValidate(iperfCfg).errs]
    /\ UNCHANGED <<validateErr, scraperVars, batchVars, receiverVars, panicked,
                   startPc, sdPc, pc, ticker, invocationVars, countVars>>

\* createDefaultConfig of the ztrace receiver, which has no target; durations in
\* seconds
DefaultConfig ==
    [Targets |-> <<>>, CollectionInterval |-> 60, Timeout |-> 10, Protocol |-> "udp",
     MaxHops |-> 30, PacketSize |-> 56, Retries |-> 3,
     EnableGeolocation |-> TRUE, EnableASNLookup |-> TRUE]

\* the ztrace receiver of its factory, untouched
ZtraceIdle ==
    /\ config = DefaultConfig
    /\ consumer = TRUE
    /\ traceConsumer = TRUE
    /\ Created

IperfValidateInit ==
    /\ ZtraceIdle
    /\ iperfCfg \in IperfConfigs
    /\ ValidateIdle
    /\ ScraperIdle

IperfValidateNext == IperfValidateConfig

IperfValidateSpec == IperfValidateInit /\ [][IperfValidateNext]_vars

-----------------------------------------------------------------------------
(* scraper.scrape of the iperf receiver                                    *)

\* the configurations a scraper is made with: the ones Validate has passed, as
\* Validate has left them
ScrapeConfigs ==
    { IperfValidate(c).cfg : c \in {d \in IperfConfigs : IperfValidate(d).errs = <<>>} }

\* the targets of the scraper's configuration
Tests == DOMAIN iperfCfg.Targets

\* where a goroutine of scrape is inside a call on s.mb: recording the error
\* data point, setting the resource, recording the data points of the report
InBuilder == {"recordError", "resource", "record"}

\* scrape takes the scraper's mutex, which it holds until it returns
ScrapeLock ==
    /\ scrapePc = "idle"
    /\ mu = FALSE
    /\ mu' = TRUE
    /\ scrapePc' = "locked"
    /\ UNCHANGED <<validateVars, scrapeWg, testPc, batchVars, receiverVars, panicked,
                   startPc, sdPc, pc, ticker, invocationVars, countVars>>

\* server mode: scrape emits the batch and returns, the deferred Unlock runs
ScrapeServer ==
    /\ scrapePc = "locked"
    /\ iperfCfg.Mode = "server"
    /\ scrapePc' = "returned"
    /\ mu' = FALSE
    /\ UNCHANGED <<validateVars, scrapeWg, testPc, batchVars, receiverVars, panicked,
                   startPc, sdPc, pc, ticker, invocationVars, countVars>>

\* client mode, one iteration of the loop over the targets: wg.Add(1) and the
\* go statement for the next target
ScrapeGo ==
    /\ scrapePc = "locked"
    /\ iperfCfg.Mode # "server"
    /\ \E i \in Tests :
        /\ testPc[i] = "none"
        /\ \A k \in Tests : k < i => testPc[k] # "none"
        /\ testPc' = [testPc EXCEPT ![i] = "start"]
    /\ scrapeWg' = scrapeWg + 1
    /\ UNCHANGED <<validateVars, mu, scrapePc, batchVars, receiverVars, panicked,
                   startPc, sdPc, pc, ticker, invocationVars, countVars>>

\* the goroutine of a target returns: the deferred wg.Done()
TestDone(i) ==
    /\ testPc' = [testPc EXCEPT ![i] = "done"]
    /\ scrapeWg' = scrapeWg - 1

\* runClientTest up to the first use of s.mb: client.Start() fails and the error
\* data point is to be recorded, or there is no report and the test returns, or
\* the resource is to be set; the goroutine takes no lock
TestStart(i) ==
    /\ testPc[i] = "start"
    /\ \E outcome \in {"error", "no report", "report"} :
         CASE outcome = "error" ->
                 /\ testPc' = [testPc EXCEPT ![i] = "recordError"]
                 /\ UNCHANGED scrapeWg
           [] outcome = "no report" -> TestDone(i)
           [] outcome = "report" ->
                 /\ testPc' = [testPc EXCEPT ![i] = "resource"]
                 /\ UNCHANGED scrapeWg
    /\ UNCHANGED <<validateVars, mu, scrapePc, batchVars, receiverVars, panicked,
                   startPc, sdPc, pc, ticker, invocationVars, countVars>>

\* s.mb.RecordIperfTestErrorDataPoint returns, and the test with it
TestErrorRecorded(i) ==
    /\ testPc[i] = "recordError"
    /\ TestDone(i)
    /\ UNCHANGED <<validateVars, mu, scrapePc, batchVars, receiverVars, panicked,
                   startPc, sdPc, pc, ticker, invocationVars, countVars>>

\* s.mb.ResourceOption returns; recordMetrics returns at once when the report
\* has no end section, and records the data points of the report otherwise
TestResourceSet(i) ==
    /\ testPc[i] = "resource"
    /\ \E end \in BOOLEAN :
         IF end
         THEN /\ testPc' = [testPc EXCEPT ![i] = "record"]
              /\ UNCHANGED scrapeWg
         ELSE TestDone(i)
    /\ UNCHANGED <<validateVars, mu, scrapePc, batchVars, receiverVars, panicked,
                   startPc, sdPc, pc, ticker, invocationVars, countVars>>

\* the last s.mb.Record call of recordMetrics returns, and the test with it
TestRecorded(i) ==
    /\ testPc[i] = "record"
    /\ TestDone(i)
    /\ UNCHANGED <<validateVars, mu, scrapePc, batchVars, receiverVars, panicked,
                   startPc, sdPc, pc, ticker, invocationVars, countVars>>

\* client mode, after the loop: wg.Wait() returns, scrape emits the batch and
\* returns, the deferred Unlock runs
ScrapeEmit ==
    /\ scrapePc = "locked"
    /\ iperfCfg.Mode # "server"
    /\ \A i \in Tests : testPc[i] # "none"
    /\ scrapeWg = 0
    /\ scrapePc' = "returned"
    /\ mu' = FALSE
    /\ UNCHANGED <<validateVars, scrapeWg, testPc, batchVars, receiverVars, panicked,
                   startPc, sdPc, pc, ticker, invocationVars, countVars>>

\* a scraper made with a configuration Validate has passed
ScrapeInit ==
    /\ ZtraceIdle
    /\ iperfCfg \in ScrapeConfigs
    /\ validateErr = "pending"
    /\ iperfErr = [returned |-> TRUE, errs |-> <<>>]
    /\ ScraperIdle

ScrapeNext ==
    \/ ScrapeLock
    \/ ScrapeServer
    \/ ScrapeGo
    \/ \E i \in Tests : TestStart(i)
    \/ \E i \in Tests : TestErrorRecorded(i)
    \/ \E i \in Tests : TestResourceSet(i)
    \/ \E i \in Tests : TestRecorded(i)
    \/ ScrapeEmit

ScrapeSpec == ScrapeInit /\ [][ScrapeNext]_vars

-----------------------------------------------------------------------------
(* The claims.                                                             *)

InFlight(j) == pc[j] \in {"resolve", "loop", "failed", "metrics", "traces"}

SomeReturned == \E c \in Callers : sdPc[c] = "returned"

\* C1: a job never has two invocations in progress: every step leaves at most
\* one invocation of a job in flight, and a job begins an invocation only when
\* its invocation before has returned.
C1_NoOverlap ==
    [][\A j \in Jobs :
          /\ inflight'[j] <= 1
          /\ (invocations'[j] # invocations[j] => inflight[j] = 0)]_vars

\* C1 witness: a tick has fired while the second invocation of a job is still in
\* flight (the invocation outlasts the interval), and the job has one invocation
\* in flight.
C1_Witness ==
    \E j \in Jobs : /\ InFlight(j)
                    /\ invocations[j] = 2
                    /\ ticker[j] = "tick"
                    /\ inflight[j] = 1

\* C2: when a Shutdown has returned, every job has exited and no invocation is in
\* flight, and from then on no job begins an invocation and none delivers to a sink.
C2_ShutdownJoins ==
    [][(\E c \in Callers : sdPc'[c] = "returned") =>
          /\ \A j \in Jobs : pc'[j] = "exited" /\ inflight'[j] = 0
          /\ (SomeReturned =>
                UNCHANGED <<pc, invocations, inflight, sentMetrics, sentTraces>>)]_vars

\* C2 witness: Shutdown has returned on a receiver of two jobs that have each run
\* two invocations, one of them with a delivery to both sinks.
C2_Witness ==
    /\ SomeReturned
    /\ Cardinality(Jobs) = 2
    /\ \A j \in Jobs : invocations[j] = 2
    /\ \E j \in Jobs : sentMetrics[j] = "ok" /\ sentTraces[j] = "ok"

\* C3: on a started receiver no call of Shutdown panics (the stop channel is not
\* closed twice); when a call has returned the channel is closed and the
\* WaitGroup is at zero, and the calls that follow or are still running leave
\* the receiver and its jobs as they are.
C3_ShutdownIdempotent ==
    [][startPc' = "returned" =>
          /\ ~panicked'
          /\ \A c \in Callers : sdPc'[c] # "panicked"
          /\ ((\E c \in Callers : sdPc'[c] = "returned") =>
                stopCh' = "closed" /\ stopOnce' /\ wg' = 0 /\ tracer' = "set")
          /\ (SomeReturned => UNCHANGED <<receiverVars, pc, ticker>>)]_vars

\* C3 witness: two calls of Shutdown have returned on a started receiver.
C3_Witness ==
    /\ startPc = "returned"
    /\ \A c \in Callers : sdPc[c] = "returned"
    /\ ~panicked

\* C4: when a call of Shutdown on a started receiver waits for the jobs, then in
\* the end every job has exited and every call that was waiting has returned.
C4_ShutdownReturns ==
    (\E c \in Callers : sdPc[c] = "wait")
        ~> (/\ \A c \in Callers : sdPc[c] # "wait"
            /\ SomeReturned
            /\ \A j \in Jobs : pc[j] = "exited")

\* C4 witness: Shutdown has returned and the jobs have exited, one of them after
\* a second invocation that met its deadline.
C4_Witness ==
    /\ SomeReturned
    /\ \A j \in Jobs : pc[j] = "exited"
    /\ \E j \in Jobs : lastErr[j] = "deadline" /\ invocations[j] = 2

\* C5: a job exits only from its select and only when the stop channel is
\* closed; an invocation that failed goes back to the select with its ticker
\* running, and the step a job takes from its select while the stop channel is
\* open begins an invocation.
C5_FailureKeepsJob ==
    [][\A j \in Jobs :
          /\ (pc'[j] = "exited" /\ pc[j] # "exited") =>
                (pc[j] = "select" /\ stopCh = "closed")
          /\ (pc[j] = "failed" /\ pc'[j] # "failed") =>
                (pc'[j] = "select" /\ ticker'[j] \in {"empty", "tick"})
          /\ (pc[j] = "select" /\ pc'[j] # "select" /\ stopCh # "closed") =>
                (pc'[j] = "resolve" /\ invocations'[j] = invocations[j] + 1)]_vars

\* C5 witness: a job is in its second invocation, the one before having failed,
\* and the stop channel is open.
C5_Witness ==
    \E j \in Jobs : /\ pc[j] = "resolve"
                    /\ invocations[j] = 2
                    /\ lastErr[j] \in {"resolve", "deadline"}
                    /\ stopCh = "open"

\* C6: Start has launched one goroutine for each target when it returns (the
\* WaitGroup counts the jobs that have not exited), and a job that has started
\* has begun one invocation and one more for each tick it has received.
C6_OneJobPerTarget ==
    /\ startPc = "returned" => Launched = Jobs
    /\ wg = Cardinality({j \in Jobs : pc[j] \notin {"none", "exited"}})
    /\ \A j \in Jobs :
          invocations[j] = (IF pc[j] \in {"none", "start"} THEN 0 ELSE 1) + ticksTaken[j]

\* C6 witness: Start has returned on two targets, and each job has run its first
\* invocation and one more on a tick.
C6_Witness ==
    /\ startPc = "returned"
    /\ Cardinality(Jobs) = 2
    /\ \A j \in Jobs : invocations[j] = 2 /\ ticksTaken[j] = 1

\* C7: an invocation whose trace succeeded has handed a batch to each sink the
\* receiver has, whatever the sinks answered, when it is over; the metrics
\* sink's answer does not keep it from the trace sink; and a job has exited
\* only if the stop channel is closed.
C7_SinkErrorIsolated ==
    \A j \in Jobs :
        /\ (pc[j] = "select" /\ lastErr[j] = "none") =>
              /\ (sentMetrics[j] # "none") = consumer
              /\ (sentTraces[j] # "none") = traceConsumer
        /\ (pc[j] = "traces") => ((sentMetrics[j] # "none") = consumer)
        /\ (pc[j] = "exited") => stopCh = "closed"

\* C7 witness: the metrics sink has rejected the batch of an invocation, the
\* trace sink has taken its batch, and the job waits for its next tick.
C7_Witness ==
    \E j \in Jobs : /\ pc[j] = "select"
                    /\ sentMetrics[j] = "rejected"
                    /\ sentTraces[j] = "ok"
                    /\ stopCh = "open"

\* C8: when trace has returned an error it has returned no result, and no probe
\* was sent if the error is the resolution's; the invocation then ends with no
\* batch handed to a sink.
C8_ErrorDeliversNothing ==
    \A j \in Jobs :
        /\ (pc[j] = "failed") =>
              /\ result[j] = NilResult
              /\ lastErr[j] \in {"resolve", "deadline"}
              /\ (lastErr[j] = "resolve" => probes[j] = 0)
              /\ sentMetrics[j] = "none" /\ sentTraces[j] = "none"
        /\ (pc[j] = "select" /\ lastErr[j] # "none") =>
              (sentMetrics[j] = "none" /\ sentTraces[j] = "none")

\* C8 witness: an invocation is over that met its deadline after some probes.
C8_Witness ==
    \E j \in Jobs : /\ pc[j] = "select"
                    /\ lastErr[j] = "deadline"
                    /\ probes[j] >= 2

\* the result trace has returned to runTrace
Completed(j) == pc[j] \in {"metrics", "traces"}

\* C9: a result trace returns has from 1 to MaxHops hops, and the ttl of its
\* i-th hop is i, a hop that did not answer included.
C9_HopsContiguous ==
    \A j \in Jobs :
        Completed(j) =>
            /\ ~result[j].nil
            /\ Len(result[j].hops) >= 1
            /\ Len(result[j].hops) <= config.MaxHops
            /\ \A i \in 1..Len(result[j].hops) : result[j].hops[i].ttl = i

\* C9 witness: a result with a hop that did not answer, recorded at its place
\* between hops that answered.
C9_Witness ==
    \E j \in Jobs :
        /\ Completed(j)
        /\ Len(result[j].hops) = 15
        /\ result[j].hops[13].ip = "" /\ result[j].hops[13].ttl = 13
        /\ result[j].hops[12].ip # "" /\ result[j].hops[15].ip # ""

\* C10: in a result trace returns, targetReached says that a hop has the
\* target's address; that hop is then the last one and the only one; otherwise
\* the result has MaxHops hops.
C10_TargetReached ==
    \A j \in Jobs :
        Completed(j) =>
            LET hops == result[j].hops
                hits == {i \in 1..Len(hops) : hops[i].ip = addr[j]}
            IN  /\ result[j].targetReached = (hits # {})
                /\ result[j].targetReached => hits = {Len(hops)}
                /\ ~result[j].targetReached => Len(hops) = config.MaxHops

\* C10 witness: the target answered the second probe of a run that had more
\* hops to spend, and the result has two hops.
C10_Witness ==
    \E j \in Jobs :
        /\ Completed(j)
        /\ result[j].targetReached
        /\ Len(result[j].hops) = 2
        /\ config.MaxHops > 2

-----------------------------------------------------------------------------
(* The claims about the total latency and the projections.                 *)

\* the total latency of the job's result has been computed
Totalled(j) == pc[j] \in {"convertToMetrics", "convertToTraces", "converted"}

\* the metrics batch of the job's result has been built
MetricsBuilt(j) == pc[j] \in {"convertToTraces", "converted"}

\* the trace batch of the job's result has been built
TracesBuilt(j) == pc[j] = "converted"

\* the metrics of a batch that have a name, in the batch's order
Named(batch, name) == SelectSeq(batch.metrics, LAMBDA x : x.name = name)

\* the metrics of a batch that have a name and are about a hop
HopNamed(batch, name, t) ==
    SelectSeq(batch.metrics, LAMBDA x : x.name = name /\ x.attrs["ttl"] = t)

\* C11: the total latency of a result is the greatest latency of its hops, and
\* 0 when it has no hop or every hop has latency 0; a hop of latency 0 does not
\* change it.
C11_TotalIsMax ==
    \A j \in Jobs :
        Totalled(j) =>
            LET hops == result[j].hops
                lats == {hops[i].latency : i \in 1..Len(hops)} \cup {0}
            IN  /\ result[j].totalLatency \in lats
                /\ \A l \in lats : l <= result[j].totalLatency
                /\ (\A i \in 1..Len(hops) : hops[i].latency = 0) =>
                      result[j].totalLatency = 0

\* C11 witness: a result of three hops with latencies 2.5, 0 and 10.2, whose
\* total latency is 10.2 and not their sum.
C11_Witness ==
    \E j \in Jobs :
        /\ Totalled(j)
        /\ Len(result[j].hops) = 3
        /\ result[j].hops[1].latency = 25
        /\ result[j].hops[2].latency = 0
        /\ result[j].hops[3].latency = 102
        /\ result[j].totalLatency = 102

\* C12: in a metrics batch no jitter sample is about a hop of latency 0,
\* whatever the jitter of the hop.
C12_JitterNeedsLatency ==
    \A j \in Jobs :
        MetricsBuilt(j) =>
            \A i \in 1..Len(result[j].hops) :
                result[j].hops[i].latency = 0 =>
                    HopNamed(md[j], "ztrace.hop.jitter", i) = <<>>

\* C13: a hop with no packet loss has no packet-loss sample in the metrics batch
\* and no packet-loss attribute on its span; a hop with a packet loss has one
\* sample and the attribute, both with the hop's loss.
C13_PacketLossPresence ==
    \A j \in Jobs :
        TracesBuilt(j) =>
            \A i \in 1..Len(result[j].hops) :
                LET hop == result[j].hops[i]
                    samples == HopNamed(md[j], "ztrace.hop.packet_loss", i)
                    span == td[j].spans[i + 1]
                IN  IF hop.packetLoss = 0
                    THEN /\ samples = <<>>
                         /\ "packet_loss.percent" \notin DOMAIN span.attrs
                    ELSE /\ Len(samples) = 1
                         /\ samples[1].value = hop.packetLoss
                         /\ "packet_loss.percent" \in DOMAIN span.attrs
                         /\ span.attrs["packet_loss.percent"] = hop.packetLoss

\* C13 witness: both batches of a result with a hop that lost nothing and a hop
\* that lost 40 percent.
C13_Witness ==
    \E j \in Jobs :
        /\ TracesBuilt(j)
        /\ Len(result[j].hops) >= 2
        /\ result[j].hops[1].packetLoss = 0
        /\ result[j].hops[2].packetLoss = Float(40)
        /\ Len(HopNamed(md[j], "ztrace.hop.packet_loss", 2)) = 1

\* C14: a metrics batch has one hop_count sample, with the number of the hops; a
\* total_latency sample exactly when the total latency is above 0; and one hop
\* latency sample for each hop, in the order of the hops.
C14_SummaryMetrics ==
    \A j \in Jobs :
        MetricsBuilt(j) =>
            LET hops == result[j].hops
                count == Named(md[j], "ztrace.hop_count")
                total == Named(md[j], "ztrace.total_latency")
                lats == Named(md[j], "ztrace.hop.latency")
            IN  /\ Len(count) = 1
                /\ count[1].value = Len(hops)
                /\ Len(total) = (IF result[j].totalLatency > 0 THEN 1 ELSE 0)
                /\ \A k \in 1..Len(total) : total[k].value = result[j].totalLatency
                /\ Len(lats) = Len(hops)
                /\ \A i \in 1..Len(hops) :
                      lats[i].attrs["ttl"] = i /\ lats[i].value = hops[i].latency

\* C14 witness: the batch of a result of three hops, the second of which did not
\* answer: hop_count is 3 and the total latency is there.
C14_Witness ==
    \E j \in Jobs :
        /\ MetricsBuilt(j)
        /\ Len(result[j].hops) = 3
        /\ result[j].hops[2].ip = ""
        /\ result[j].totalLatency > 0
        /\ Named(md[j], "ztrace.hop_count")[1].value = 3
        /\ Len(Named(md[j], "ztrace.total_latency")) = 1

\* the attributes a projection puts for the geolocation and for the ASN
GeoKeys == {"city", "country", "geo.city", "geo.country"}
AsnKeys == {"asn", "provider", "network.asn", "network.provider"}

\* C15: with the geolocation flag off no metric and no span has a city or a
\* country attribute, with the ASN flag off none has an asn or a provider
\* attribute, whatever the hops carry; with a flag on, the latency sample and
\* the span of a hop have the attributes exactly when the hop carries the data,
\* with the hop's values.
C15_EnrichmentFlags ==
    \A j \in Jobs :
        TracesBuilt(j) =>
            LET hops == result[j].hops
                metricKeys == UNION {DOMAIN md[j].metrics[k].attrs : k \in DOMAIN md[j].metrics}
                spanKeys == UNION {DOMAIN td[j].spans[k].attrs : k \in DOMAIN td[j].spans}
            IN  /\ ~config.EnableGeolocation => (metricKeys \cup spanKeys) \cap GeoKeys = {}
                /\ ~config.EnableASNLookup => (metricKeys \cup spanKeys) \cap AsnKeys = {}
                /\ \A i \in 1..Len(hops) :
                      LET lat == HopNamed(md[j], "ztrace.hop.latency", i)[1].attrs
                          span == td[j].spans[i + 1].attrs
                          geo == config.EnableGeolocation /\ hops[i].city # ""
                          asn == config.EnableASNLookup /\ hops[i].asn # ""
                      IN  /\ DOMAIN lat \cap GeoKeys = (IF geo THEN {"city", "country"} ELSE {})
                          /\ DOMAIN span \cap GeoKeys =
                                (IF geo THEN {"geo.city", "geo.country"} ELSE {})
                          /\ DOMAIN lat \cap AsnKeys = (IF asn THEN {"asn", "provider"} ELSE {})
                          /\ DOMAIN span \cap AsnKeys =
                                (IF asn THEN {"network.asn", "network.provider"} ELSE {})
                          /\ geo => /\ lat["city"] = hops[i].city
                                    /\ lat["country"] = hops[i].country
                                    /\ span["geo.city"] = hops[i].city
                                    /\ span["geo.country"] = hops[i].country
                          /\ asn => /\ lat["asn"] = hops[i].asn
                                    /\ lat["provider"] = hops[i].provider
                                    /\ span["network.asn"] = hops[i].asn
                                    /\ span["network.provider"] = hops[i].provider

\* C15 witness: geolocation is off and ASN lookup is on; a hop carries a city and
\* an ASN, and its span has the ASN and no city; a hop next to it carries neither.
C15_Witness ==
    \E j \in Jobs :
        /\ TracesBuilt(j)
        /\ ~config.EnableGeolocation /\ config.EnableASNLookup
        /\ Len(result[j].hops) >= 2
        /\ result[j].hops[1].city # "" /\ result[j].hops[1].asn # ""
        /\ result[j].hops[2].asn = ""
        /\ "network.asn" \in DOMAIN td[j].spans[2].attrs
        /\ "geo.city" \notin DOMAIN td[j].spans[2].attrs

\* C16: a trace batch has one more span than the result has hops: the root span
\* first, then a span for each hop in the order of the hops, with the root's
\* trace ID and the root's span ID as its parent.
C16_SpanTree ==
    \A j \in Jobs :
        TracesBuilt(j) =>
            LET hops == result[j].hops
                spans == td[j].spans
                root == spans[1]
            IN  /\ Len(spans) = Len(hops) + 1
                /\ root.name = "traceroute to " \o config.Targets[j].Endpoint
                /\ root.attrs["hop.count"] = Len(hops)
                /\ \A i \in 1..Len(hops) :
                      /\ spans[i + 1].name # root.name
                      /\ spans[i + 1].traceID = root.traceID
                      /\ spans[i + 1].parentSpanID = root.spanID
                      /\ spans[i + 1].attrs["ttl"] = hops[i].ttl
                      /\ spans[i + 1].attrs["ip"] = hops[i].ip
                      /\ hops[i].ttl = i

\* C16 witness: the batch of a result of three hops, the second of which did not
\* answer, has four spans.
C16_Witness ==
    \E j \in Jobs :
        /\ TracesBuilt(j)
        /\ Len(result[j].hops) = 3
        /\ result[j].hops[2].ip = ""
        /\ result[j].hops[3].ip # ""
        /\ Len(td[j].spans) = 4

\* the nanoseconds of a float64 of milliseconds
Nanoseconds(f) == f * (Millisecond \div FloatScale)

\* C17: the root span of a trace batch lasts the total latency of the result.
C17_RootDuration ==
    \A j \in Jobs :
        TracesBuilt(j) =>
            td[j].spans[1].endTimestamp - td[j].spans[1].startTimestamp
                = Nanoseconds(result[j].totalLatency)

\* C18: the span of a hop starts when the root span starts and lasts the latency
\* of the hop; the span of a hop of latency 0 has no length.
C18_HopDuration ==
    \A j \in Jobs :
        TracesBuilt(j) =>
            \A i \in 1..Len(result[j].hops) :
                LET span == td[j].spans[i + 1]
                IN  /\ span.startTimestamp = td[j].spans[1].startTimestamp
                    /\ span.endTimestamp - span.startTimestamp
                          = Nanoseconds(result[j].hops[i].latency)

\* the high_packet_loss events of a span
HighLossEvents(span) == SelectSeq(span.events, LAMBDA e : e.name = "high_packet_loss")

\* C19: the span of a hop has one high_packet_loss event when the hop's packet
\* loss is above 50 and none otherwise, at 50 too; the root span has none.
C19_HighLossEvent ==
    \A j \in Jobs :
        TracesBuilt(j) =>
            /\ HighLossEvents(td[j].spans[1]) = <<>>
            /\ \A i \in 1..Len(result[j].hops) :
                  Len(HighLossEvents(td[j].spans[i + 1]))
                      = (IF result[j].hops[i].packetLoss > Float(50) THEN 1 ELSE 0)

\* C19 witness: hops with a packet loss of 40, of 50 and of 60: the span of the
\* last one has the event, the two others have none.
C19_Witness ==
    \E j \in Jobs :
        /\ TracesBuilt(j)
        /\ Len(result[j].hops) = 3
        /\ result[j].hops[1].packetLoss = Float(40)
        /\ result[j].hops[2].packetLoss = Float(50)
        /\ result[j].hops[3].packetLoss = Float(60)
        /\ Len(td[j].spans[4].events) = 1
        /\ td[j].spans[2].events = <<>> /\ td[j].spans[3].events = <<>>

\* the span identifiers of a trace batch
SpanIDs(batch) == {batch.spans[k].spanID : k \in DOMAIN batch.spans}

\* C20: the trace batches of two runs have different trace IDs and no span ID
\* in common.
C20_UniqueIds ==
    \A j, k \in Jobs :
        (j # k /\ TracesBuilt(j) /\ TracesBuilt(k)) =>
            /\ td[j].spans[1].traceID # td[k].spans[1].traceID
            /\ SpanIDs(td[j]) \cap SpanIDs(td[k]) = {}

-----------------------------------------------------------------------------
(* Cancellation, stop and ticks                                            *)

\* C23: trace issues a probe only after finding the context of the invocation
\* not done, at every ttl, the first included; when it finds the context done
\* it issues no probe and returns the error of the context and no result.
C23_DeadlineBeforeProbe ==
    [][\A j \in Jobs :
         /\ probes'[j] > probes[j] => (pc[j] = "loop" /\ ~ctxDone[j])
         /\ (pc[j] = "loop" /\ ctxDone[j] /\ pc'[j] # pc[j]) =>
                /\ pc'[j] = "failed"
                /\ lastErr'[j] = "deadline"
                /\ result'[j] = NilResult
                /\ probes'[j] = probes[j]]_vars

\* a trace that found its context done before its first probe has returned the
\* error
C23_Witness ==
    \E j \in Jobs :
        /\ pc[j] = "failed"
        /\ lastErr[j] = "deadline"
        /\ probes[j] = 0
        /\ ttl[j] = 1

\* C24: the close of the stop channel leaves an invocation in flight as it is;
\* an invocation fails in its loop only when its own context is done, delivers
\* its batches to the sinks whether the channel is closed or not, and its job
\* exits only from the select, with no invocation in flight.
C24_StopSparesInvocation ==
    [][\A j \in Jobs :
         /\ stopCh' # stopCh =>
                /\ pc'[j] = pc[j]
                /\ ctxDone'[j] = ctxDone[j]
                /\ result'[j] = result[j]
         /\ (pc[j] = "loop" /\ pc'[j] = "failed") => ctxDone[j]
         /\ (ctxDone'[j] /\ ~ctxDone[j]) => (pc[j] = "loop" /\ stopCh' = stopCh)
         /\ (pc[j] = "metrics" /\ pc'[j] # pc[j]) =>
                /\ pc'[j] = "traces"
                /\ consumer => sentMetrics'[j] # "none"
         /\ (pc[j] = "traces" /\ pc'[j] # pc[j]) =>
                /\ pc'[j] = "select"
                /\ traceConsumer => sentTraces'[j] # "none"
         /\ (pc'[j] = "exited" /\ pc[j] # "exited") =>
                (pc[j] = "select" /\ inflight[j] = 0)]_vars

\* Shutdown waits with the stop channel closed while an invocation, its metrics
\* delivered, has its traces still to deliver
C24_Witness ==
    /\ stopCh = "closed"
    /\ \E c \in Callers : sdPc[c] = "wait"
    /\ \E j \in Jobs :
        /\ pc[j] = "traces"
        /\ sentMetrics[j] = "ok"
        /\ ~ctxDone[j]

\* C25 as the specification states it: when an invocation returns to the select
\* no tick is pending.
C25_NoTickPending ==
    [][\A j \in Jobs :
         (InFlight(j) /\ pc'[j] = "select") => ticker'[j] # "tick"]_vars

\* C25: the channel of the ticker holds one tick: a tick that fires during an
\* invocation stays pending until the select takes it, later ones are lost, and
\* the next invocation begins by taking the one pending tick.
C25_OneTickHeld ==
    [][\A j \in Jobs :
         /\ (InFlight(j) /\ ticker[j] = "tick") => ticker'[j] = "tick"
         /\ (pc[j] = "select" /\ pc'[j] # pc[j] /\ pc'[j] # "exited") =>
                /\ ticker[j] = "tick"
                /\ ticker'[j] = "empty"
                /\ ticksTaken'[j] = ticksTaken[j] + 1
                /\ invocations'[j] = invocations[j] + 1]_vars

\* the second invocation of a job has just begun by taking the pending tick,
\* which leaves the channel empty
C25_Witness ==
    \E j \in Jobs :
        /\ pc[j] = "resolve"
        /\ invocations[j] = 2
        /\ ticksTaken[j] = 1
        /\ ticker[j] = "empty"

\* C26: no invocation begins once the stop channel is closed.
C26_NoInvocationAfterStop ==
    [][\A j \in Jobs :
         invocations'[j] > invocations[j] => stopCh # "closed"]_vars

\* C27: Shutdown on a receiver that Start never ran on does not panic.
C27_ShutdownBeforeStart == startPc = "init" => ~panicked

\* C28: in a trace batch the span of each hop starts when the root span starts
\* and ends no later than the root span ends.
C28_HopInsideRoot ==
    \A j \in Jobs :
        TracesBuilt(j) =>
            \A i \in 2..Len(td[j].spans) :
                /\ td[j].spans[i].startTimestamp = td[j].spans[1].startTimestamp
                /\ td[j].spans[i].endTimestamp <= td[j].spans[1].endTimestamp

\* a batch of three hops: the span of one ends with the root span, the span of
\* another before it
C28_Witness ==
    \E j \in Jobs :
        /\ TracesBuilt(j)
        /\ Len(td[j].spans) = 4
        /\ \E i \in 2..4 : td[j].spans[i].endTimestamp = td[j].spans[1].endTimestamp
        /\ \E i \in 2..4 : td[j].spans[i].endTimestamp < td[j].spans[1].endTimestamp

-----------------------------------------------------------------------------
(* Validation                                                              *)

\* the conditions under which a ztrace configuration is valid
ValidConfig(cfg) ==
    /\ Len(cfg.Targets) >= 1
    /\ \A i \in DOMAIN cfg.Targets :
        /\ cfg.Targets[i].Endpoint # ""
        /\ (cfg.Targets[i].Port > 0 \/ cfg.Protocol = "icmp")
    /\ cfg.CollectionInterval > 0
    /\ cfg.Timeout > 0
    /\ cfg.Protocol \in {"udp", "icmp", "tcp"}
    /\ cfg.MaxHops \in 1..64
    /\ cfg.PacketSize \in 1..65535
    /\ cfg.Retries >= 0

\* the checks of a ztrace configuration in their order, each with whether it
\* fails and the error it then gives: the targets in index order, two checks
\* each, between the check of the number of targets and the other six
OrderedChecks(cfg) ==
    LET n == Len(cfg.Targets)
        targetCheck(k) ==
            LET i == (k + 1) \div 2
            IN  IF k % 2 = 1
                THEN [fails |-> cfg.Targets[i].Endpoint = "",
                      err |-> "target[" \o ToString(i - 1) \o "]: endpoint cannot be empty"]
                ELSE [fails |-> cfg.Targets[i].Port <= 0 /\ cfg.Protocol # "icmp",
                      err |-> "target[" \o ToString(i - 1) \o "]: port must be specified for "
                                  \o cfg.Protocol \o " protocol"]
    IN  << [fails |-> n = 0, err |-> "at least one target must be specified"] >>
        \o [k \in 1..(2 * n) |-> targetCheck(k)]
        \o << [fails |-> cfg.CollectionInterval <= 0,
               err |-> "collection_interval must be positive"],
              [fails |-> cfg.Timeout <= 0, err |-> "timeout must be positive"],
              [fails |-> cfg.Protocol \notin {"udp", "icmp", "tcp"},
               err |-> "invalid protocol \"" \o cfg.Protocol
                           \o "\", must be one of: udp, icmp, tcp"],
              [fails |-> cfg.MaxHops \notin 1..64,
               err |-> "max_hops must be between 1 and 64"],
              [fails |-> cfg.PacketSize \notin 1..65535,
               err |-> "packet_size must be between 1 and 65535"],
              [fails |-> cfg.Retries < 0, err |-> "retries must be non-negative"] >>

\* the error of the first of the checks that fails, "nil" when none does
FirstFailing(checks) ==
    LET failing == {k \in DOMAIN checks : checks[k].fails}
    IN  IF failing = {} THEN "nil"
        ELSE checks[CHOOSE k \in failing : \A l \in failing : k <= l].err

\* C21: Validate of the ztrace configuration returns nil exactly when the
\* configuration is valid, otherwise the error of the first check that fails in
\* the order of the checks, and it leaves the configuration as it was.
C21_ValidateFirstFailing ==
    [][validateErr' # validateErr =>
          /\ config' = config
          /\ (validateErr' = "nil") <=> ValidConfig(config)
          /\ validateErr' = FirstFailing(OrderedChecks(config))]_vars

\* Validate has returned the port error of the second target of a udp
\* configuration whose later checks (interval, max_hops) fail as well
C21_Witness ==
    /\ validateErr = "target[1]: port must be specified for udp protocol"
    /\ config.CollectionInterval <= 0
    /\ config.MaxHops > 64

\* TargetConfig.Validate has nothing against the target
TargetPasses(target) ==
    /\ target.Host # ""
    /\ target.Port \in 1..65535
    /\ target.Streams >= 0
    /\ target.Protocol \in {"", "tcp", "udp", "sctp"}
    /\ target.OmitSec >= 0
    /\ target.MSS >= 0

\* the conditions under which an iperf configuration is valid
IperfValid(cfg) ==
    /\ cfg.Mode \in {"client", "server", ""}
    /\ cfg.Mode = "server" => cfg.ServerPort \in 1..65535
    /\ cfg.Mode \in {"client", ""} =>
        /\ Len(cfg.Targets) >= 1
        /\ \A i \in DOMAIN cfg.Targets : TargetPasses(cfg.Targets[i])

\* the messages of the checks that fail, in the order of the checks
Failures(checks) ==
    LET failing == SelectSeq(checks, LAMBDA c : c.fails)
    IN  [k \in DOMAIN failing |-> failing[k].err]

\* what TargetConfig.Validate has against a target
TargetViolations(target) ==
    Failures(<< [fails |-> target.Host = "", err |-> "host cannot be empty"],
                [fails |-> target.Port \notin 1..65535,
                 err |-> "port must be between 1 and 65535"],
                [fails |-> target.Streams < 0, err |-> "streams must be positive"],
                [fails |-> target.Protocol \notin {"", "tcp", "udp", "sctp"},
                 err |-> "invalid protocol: " \o target.Protocol
                             \o ", must be tcp, udp, or sctp"],
                [fails |-> target.OmitSec < 0, err |-> "omit seconds cannot be negative"],
                [fails |-> target.MSS < 0, err |-> "MSS cannot be negative"] >>)

\* every violation of an iperf configuration: the mode, the server port in
\* server mode, and in client mode (the empty mode is client) the lack of
\* targets and, for each target that has any, its violations under its index
IperfViolations(cfg) ==
    LET client == cfg.Mode \in {"client", ""}
    IN  Failures(<< [fails |-> cfg.Mode \notin {"client", "server", ""},
                     err |-> "invalid mode: " \o cfg.Mode
                                 \o ", must be 'client' or 'server'"],
                    [fails |-> cfg.Mode = "server" /\ cfg.ServerPort \notin 1..65535,
                     err |-> "port must be between 1 and 65535"],
                    [fails |-> client /\ Len(cfg.Targets) = 0,
                     err |-> "at least one target must be configured"] >>
                 \o [i \in DOMAIN cfg.Targets |->
                       [fails |-> client /\ TargetViolations(cfg.Targets[i]) # <<>>,
                        err |-> "target[" \o ToString(i - 1) \o "]: "
                                    \o ErrorString(TargetViolations(cfg.Targets[i]))]])

\* C22: Validate of the iperf configuration returns nil exactly when the
\* configuration is valid, replaces an empty mode by client, and returns every
\* violation, not the first only, each target's under its index.
C22_ValidateAccumulates ==
    [][iperfErr' # iperfErr =>
          /\ (iperfErr'.errs = <<>>) <=> IperfValid(iperfCfg)
          /\ iperfErr'.errs = IperfViolations(iperfCfg)
          /\ iperfCfg'.Mode = IF iperfCfg.Mode = "" THEN "client" ELSE iperfCfg.Mode]_vars

\* Validate has returned two errors for a configuration of two targets in client
\* mode, one for each target under its index
C22_Witness ==
    /\ iperfErr.returned
    /\ iperfCfg.Mode = "client"
    /\ Len(iperfErr.errs) = 2
    /\ iperfErr.errs[1] = "target[0]: port must be between 1 and 65535"
    /\ iperfErr.errs[2] = "target[1]: omit seconds cannot be negative"

\* C29: when Validate has returned nil in client mode, every target of the
\* configuration has a positive duration, one stream or more, and a protocol.
C29_DefaultsStored ==
    (iperfErr.returned /\ iperfErr.errs = <<>> /\ iperfCfg.Mode = "client") =>
        \A i \in DOMAIN iperfCfg.Targets :
            /\ iperfCfg.Targets[i].Duration > 0
            /\ iperfCfg.Targets[i].Streams >= 1
            /\ iperfCfg.Targets[i].Protocol \in {"tcp", "udp", "sctp"}

\* C30: during a scrape no two goroutines of the targets are inside the metrics
\* builder at the same time, and scrape returns its batch only when every test
\* has finished.
C30_BuilderExclusive ==
    /\ \A i, k \in Tests :
        (testPc[i] \in InBuilder /\ testPc[k] \in InBuilder) => i = k
    /\ (scrapePc = "returned" /\ iperfCfg.Mode = "client") =>
        \A i \in Tests : testPc[i] = "done"

=============================================================================
